---- MODULE Spec2Model ----
(***************************************************************************)
(* State-machine model of the periodic HTTP health checker in src/main.go. *)
(* One loop thread (main -> run) multiplexes a signal channel, a context   *)
(* and a ticker; config.init re-reads the configuration on SIGHUP.         *)
(* Durations are counted in seconds.                                       *)
(***************************************************************************)
EXTENDS Integers, Sequences, FiniteSets, TLC

(* ---------------- bounds of the model ---------------- *)
\* total number of signals the environment delivers in one run
MaxSignals == 3

(* ---------------- program constants ---------------- *)
\* const defaultTick = 60 * time.Second
defaultTick == 60
\* make(chan os.Signal, 1)
signalChanCap == 1
\* flags.Int("status", 200, ...)
defaultStatus == 200
\* exit status of flag.ExitOnError
exitOnErrorCode == 2

SIGINT == "SIGINT"
SIGTERM == "SIGTERM"
SIGHUP == "SIGHUP"
\* signal.Notify(signalChan, syscall.SIGINT, syscall.SIGTERM, syscall.SIGHUP)
Signals == {SIGINT, SIGTERM, SIGHUP}

(* ---------------- configuration: config.init ---------------- *)
\* type config struct: the fields, in the order init assigns them
Fields == <<"statusCode", "tick", "server", "contentType", "userAgent", "url">>

\* c := &config{}  (Go zero values)
config == [statusCode |-> 0, tick |-> 0, server |-> "", contentType |-> "",
           userAgent |-> "", url |-> ""]

\* strconv-style parsing of an integer option value
Atoi(str) ==
    CASE str = "200" -> [ok |-> TRUE, v |-> 200]
      [] str = "404" -> [ok |-> TRUE, v |-> 404]
      [] OTHER -> [ok |-> FALSE, v |-> 0]

\* time.ParseDuration of an option value (a unit is mandatory)
ParseDuration(str) ==
    CASE str = "1s" -> [ok |-> TRUE, v |-> 1]
      [] str = "2s" -> [ok |-> TRUE, v |-> 2]
      [] str = "0s" -> [ok |-> TRUE, v |-> 0]
      [] str = "-1s" -> [ok |-> TRUE, v |-> 0 - 1]
      [] str = "60s" -> [ok |-> TRUE, v |-> 60]
      [] OTHER -> [ok |-> FALSE, v |-> 0]

NoOptions == [n \in {} |-> ""]

\* The option sets (arguments, environment and config file merged) that a
\* call of init may see: name -> raw text, omitted names take the default.
Inputs ==
    { NoOptions,
      ("status" :> "200") @@ ("tick" :> "1s") @@ ("server" :> "nginx") @@
         ("content_type" :> "text/html") @@ ("user_agent" :> "") @@ ("url" :> "http://a"),
      ("status" :> "404") @@ ("tick" :> "2s") @@ ("server" :> "apache") @@
         ("content_type" :> "text/html") @@ ("user_agent" :> "x") @@ ("url" :> "http://b"),
      ("tick" :> "0s") @@ ("url" :> "http://a"),
      ("tick" :> "-1s") @@ ("url" :> "http://b") @@ ("server" :> "nginx"),
      ("status" :> "abc") @@ ("url" :> "http://a"),
      ("tick" :> "5") @@ ("url" :> "http://a") }

\* value of a string flag: flags.String(name, "", ...)
StringFlag(opts, name) == IF name \in DOMAIN opts THEN opts[name] ELSE ""

\* flags.Int / flags.Duration / flags.String declarations followed by
\* flags.Parse: the flag variables on success, an error otherwise.
Parse(opts) ==
    LET st == IF "status" \in DOMAIN opts THEN Atoi(opts["status"])
              ELSE [ok |-> TRUE, v |-> defaultStatus]
        tk == IF "tick" \in DOMAIN opts THEN ParseDuration(opts["tick"])
              ELSE [ok |-> TRUE, v |-> defaultTick]
    IN  [ok |-> st.ok /\ tk.ok,
         v  |-> [statusCode |-> st.v, tick |-> tk.v,
                 server |-> StringFlag(opts, "server"),
                 contentType |-> StringFlag(opts, "content_type"),
                 userAgent |-> StringFlag(opts, "user_agent"),
                 url |-> StringFlag(opts, "url")]]

(* ---------------- the probe's collaborator ---------------- *)
\* resp.Header.Get(key): the empty string when the header is absent
HeaderGet(h, key) == IF key \in DOMAIN h THEN h[key] ELSE ""

\* responses the polled server may give
Responses ==
    { [StatusCode |-> st, Header |-> hs] :
        st \in {200, 404},
        hs \in { ("server" :> sv) @@ ("content-type" :> ct) @@ ua :
                   sv \in {"nginx", "apache"},
                   ct \in {"text/html", "text/plain"},
                   ua \in {NoOptions, ("user-agent" :> "x")} } }

NoResp == [StatusCode |-> 0, Header |-> NoOptions]

(* ---------------- state ---------------- *)
VARIABLES
    pc,            \* position of the main goroutine in main/run/cancel
    ipc,           \* position inside config.init ("idle" when not running)
    c,             \* the config struct main allocates and run uses
    flags,         \* the flag variables of the running init call
    signalChan,    \* buffered channel of pending signals
    notified,      \* signal.Notify has been called
    ctxDone,       \* the context passed to run is cancelled
    timer,         \* the ticker made by time.Tick in the current select
    sinceSelect,   \* seconds passed since the loop last entered the select
    args,          \* the options the running init call has parsed
    s,             \* the signal received by the select
    resp,          \* the response of the current probe
    lines,         \* log lines of the current probe cycle
    used,          \* config fields read by the current probe cycle
    inflight,      \* GET requests issued and not yet completed
    exitCode,      \* process exit status, -1 while the process runs
    forced,        \* the process ended through os.Exit
    shutdown,      \* what the loop did since it received a terminate signal
    liveSnap,      \* configuration installed by the last completed init
    prevSnap,      \* configuration installed by the init before that
    delivered,     \* signals delivered to the process so far
    hupDelivered,  \* SIGHUPs delivered after signal.Notify
    hupQueued,     \* SIGHUPs that reached the channel or the waiting select
    termDelivered, \* SIGINT/SIGTERMs delivered after signal.Notify
    loads,         \* calls of init made by the SIGHUP case
    getFailed      \* a GET failed at transport level

vars == <<pc, ipc, c, flags, args, signalChan, notified, ctxDone, timer,
          sinceSelect, s, resp,
          lines, used, inflight, exitCode, forced, shutdown, liveSnap,
          prevSnap, delivered, hupDelivered, hupQueued, termDelivered, loads,
          getFailed>>

\* groups used in UNCHANGED clauses
cfgVars == <<c, flags, args, liveSnap, prevSnap>>
sigVars == <<signalChan, notified, delivered, hupDelivered, hupQueued, termDelivered>>
probeVars == <<resp, lines, used, inflight, getFailed>>
exitVars == <<exitCode, forced>>

NoTimer == [armed |-> FALSE, d |-> 0, elapsed |-> 0]

\* variant of Tick: a non-positive duration fires at once (as time.After does)
Tick_After(d) == [armed |-> TRUE, d |-> IF d > 0 THEN d ELSE 0, elapsed |-> 0]

\* time.Tick(d): a ticker firing after d, or a nil channel when d <= 0
Tick(d) == IF d > 0 THEN [armed |-> TRUE, d |-> d, elapsed |-> 0] ELSE NoTimer

\* entries the loop adds to its shutdown history once shutdown has begun
Record(e) == IF shutdown = <<>> THEN shutdown ELSE Append(shutdown, e)

\* the lifecycle state of the controller
State ==
    CASE pc \in {"cancel_dying", "cancel_sleep", "cancel_dead", "os_exit"} -> "SHUTTING_DOWN"
      [] pc \in {"return_nil", "return_err", "exited"} -> "TERMINATED"
      [] pc \in {"start", "startup_init", "log_start"} -> "STARTING"
      [] OTHER -> "RUNNING"

Init ==
    /\ pc = "start"
    /\ ipc = "idle"
    /\ c = config
    /\ flags = config
    /\ signalChan = <<>>
    /\ notified = FALSE
    /\ ctxDone = FALSE
    /\ timer = NoTimer
    /\ sinceSelect = 0
    /\ args = NoOptions
    /\ s = "none"
    /\ resp = NoResp
    /\ lines = <<>>
    /\ used = NoOptions
    /\ inflight = 0
    /\ exitCode = 0 - 1
    /\ forced = FALSE
    /\ shutdown = <<>>
    /\ liveSnap = config
    /\ prevSnap = config
    /\ delivered = 0
    /\ hupDelivered = 0
    /\ hupQueued = 0
    /\ termDelivered = 0
    /\ loads = 0
    /\ getFailed = FALSE

\* os.Exit(code)
Exit(code) ==
    /\ pc' = "exited"
    /\ exitCode' = code
    /\ forced' = TRUE

(* ---------------- config.init ---------------- *)
\* variant of init_Parse: the flags are bound to the fields of c
\* (flags.StringVar(&c.url, ...)), so the values parsed before the failing one
\* are already stored when Parse fails
init_Parse_Bound ==
    /\ exitCode < 0
    /\ ipc = "parse"
    /\ \E opts \in Inputs :
          LET r == Parse(opts)
          IN  IF r.ok
              THEN /\ flags' = r.v
                   /\ args' = opts
                   /\ ipc' = Fields[1]
                   /\ UNCHANGED <<c, pc, exitVars>>
              ELSE /\ Exit(exitOnErrorCode)
                   /\ c' = [c EXCEPT !.server = r.v.server,
                                     !.contentType = r.v.contentType,
                                     !.userAgent = r.v.userAgent,
                                     !.url = r.v.url]
                   /\ UNCHANGED <<flags, args, ipc>>
    /\ UNCHANGED <<liveSnap, prevSnap, sigVars, ctxDone, timer, sinceSelect, s,
                   probeVars, shutdown, loads>>

\* variant of init_Parse: the flag set is made with flag.ContinueOnError, a
\* failing Parse makes init return the error (which run does not look at)
init_Parse_ContinueOnError ==
    /\ exitCode < 0
    /\ ipc = "parse"
    /\ \E opts \in Inputs :
          LET r == Parse(opts)
          IN  IF r.ok
              THEN /\ flags' = r.v
                   /\ args' = opts
                   /\ ipc' = Fields[1]
              ELSE /\ ipc' = "return"
                   /\ UNCHANGED <<flags, args>>
    /\ UNCHANGED <<c, pc, exitVars, liveSnap, prevSnap, sigVars, ctxDone, timer,
                   sinceSelect, s, probeVars, shutdown, loads>>

\* flags.Parse(args[1:]) under flag.ExitOnError: a value that does not parse
\* ends the process with status 2, init does not return
init_Parse ==
    /\ exitCode < 0
    /\ ipc = "parse"
    /\ \E opts \in Inputs :
          LET r == Parse(opts)
          IN  IF r.ok
              THEN /\ flags' = r.v
                   /\ args' = opts
                   /\ ipc' = Fields[1]
                   /\ UNCHANGED <<pc, exitVars>>
              ELSE /\ Exit(exitOnErrorCode)
                   /\ UNCHANGED <<flags, args, ipc>>
    /\ UNCHANGED <<c, liveSnap, prevSnap, sigVars, ctxDone, timer, sinceSelect, s, probeVars,
                   shutdown, loads>>

\* index of a field in the assignment order
FieldIndex(f) == CHOOSE i \in 1..Len(Fields) : Fields[i] = f

\* variant of init_Assign: c.server is assigned from the content_type flag
init_Assign_Swapped ==
    /\ exitCode < 0
    /\ ipc \in {Fields[i] : i \in 1..Len(Fields)}
    /\ c' = [c EXCEPT ![ipc] = flags[IF ipc = "server" THEN "contentType" ELSE ipc]]
    /\ ipc' = IF FieldIndex(ipc) < Len(Fields) THEN Fields[FieldIndex(ipc) + 1]
              ELSE "return"
    /\ UNCHANGED <<pc, flags, args, liveSnap, prevSnap, sigVars, ctxDone, timer,
                   sinceSelect, s, probeVars, exitVars, shutdown, loads>>

\* c.statusCode = *statusCode ... c.url = *url, one assignment per step
init_Assign ==
    /\ exitCode < 0
    /\ ipc \in {Fields[i] : i \in 1..Len(Fields)}
    /\ c' = [c EXCEPT ![ipc] = flags[ipc]]
    /\ ipc' = IF FieldIndex(ipc) < Len(Fields) THEN Fields[FieldIndex(ipc) + 1]
              ELSE "return"
    /\ UNCHANGED <<pc, flags, args, liveSnap, prevSnap, sigVars, ctxDone, timer, sinceSelect, s,
                   probeVars, exitVars, shutdown, loads>>

\* return nil: control goes back to the caller in run
init_Return ==
    /\ exitCode < 0
    /\ ipc = "return"
    /\ ipc' = "idle"
    /\ flags' = config
    /\ args' = NoOptions
    /\ prevSnap' = liveSnap
    /\ liveSnap' = c
    /\ pc' = CASE pc = "startup_init" -> "log_start"
               [] pc = "reload_init" -> "select"
               [] OTHER -> pc
    /\ UNCHANGED <<c, sigVars, ctxDone, timer, sinceSelect, s, probeVars, exitVars,
                   shutdown, loads>>

(* ---------------- run: startup ---------------- *)
\* c.init(os.Args) at the top of run
run_Init ==
    /\ pc = "start"
    /\ pc' = "startup_init"
    /\ ipc' = "parse"
    /\ UNCHANGED <<cfgVars, sigVars, ctxDone, timer, sinceSelect, s, probeVars, exitVars,
                   shutdown, loads>>

\* log "Starting...", make the channel, signal.Notify
run_Notify ==
    /\ pc = "log_start"
    /\ pc' = "select"
    /\ notified' = TRUE
    /\ signalChan' = <<>>
    /\ UNCHANGED <<ipc, cfgVars, delivered, hupDelivered, hupQueued,
                   termDelivered, ctxDone, timer, sinceSelect, s, probeVars, exitVars,
                   shutdown, loads>>

(* ---------------- the environment ---------------- *)
\* The send signal.Notify's dispatcher makes: it never blocks, a signal that
\* finds the buffer full is dropped.
Notify(ch, sig) == IF Len(ch) < signalChanCap THEN Append(ch, sig) ELSE ch

\* A signal is delivered to the process after signal.Notify. A select that is
\* blocked receives it directly, otherwise it goes through the buffer.
Deliver(sig) ==
    /\ notified
    /\ exitCode < 0
    /\ delivered < MaxSignals
    /\ delivered' = delivered + 1
    /\ hupDelivered' = IF sig = SIGHUP THEN hupDelivered + 1 ELSE hupDelivered
    /\ termDelivered' = IF sig # SIGHUP THEN termDelivered + 1 ELSE termDelivered
    /\ IF pc = "wait"
       THEN /\ s' = sig
            /\ pc' = "switch"
            /\ hupQueued' = IF sig = SIGHUP THEN hupQueued + 1 ELSE hupQueued
            /\ UNCHANGED <<signalChan, timer>>
       ELSE /\ signalChan' = Notify(signalChan, sig)
            /\ hupQueued' = IF sig = SIGHUP /\ signalChan' # signalChan
                            THEN hupQueued + 1 ELSE hupQueued
            /\ UNCHANGED <<s, pc, timer>>
    /\ UNCHANGED <<ipc, cfgVars, notified, ctxDone, sinceSelect, probeVars,
                   exitVars, shutdown, loads>>

\* The caller of run cancels the context.
CancelCtx ==
    /\ ~ctxDone
    /\ exitCode < 0
    /\ ctxDone' = TRUE
    /\ IF pc = "wait"
       THEN pc' = "return_nil"
       ELSE UNCHANGED pc
    /\ UNCHANGED <<ipc, cfgVars, sigVars, timer, sinceSelect, s, probeVars,
                   exitVars, shutdown, loads>>

\* One second passes while the select is blocked.
Advance ==
    /\ pc = "wait"
    /\ timer.armed
    /\ timer.elapsed < timer.d
    /\ timer' = [timer EXCEPT !.elapsed = @ + 1]
    /\ sinceSelect' = sinceSelect + 1
    /\ UNCHANGED <<pc, ipc, cfgVars, sigVars, ctxDone, s, probeVars, exitVars,
                   shutdown, loads>>

\* The ticker of the blocked select fires: case <-time.Tick(c.tick)
TickFire ==
    /\ pc = "wait"
    /\ timer.armed
    /\ timer.elapsed = timer.d
    /\ pc' = "tick"
    /\ timer' = NoTimer
    /\ UNCHANGED sinceSelect
    /\ UNCHANGED <<ipc, cfgVars, sigVars, ctxDone, s, probeVars, exitVars,
                   shutdown, loads>>

(* ---------------- run: the loop ---------------- *)
\* variant of run_Select: the select has no case <-ctx.Done()
run_Select_NoCtx ==
    /\ pc = "select"
    /\ \/ /\ signalChan # <<>>
          /\ s' = Head(signalChan)
          /\ signalChan' = Tail(signalChan)
          /\ pc' = "switch"
       \/ /\ signalChan = <<>>
          /\ pc' = "wait"
          /\ UNCHANGED <<s, signalChan>>
    /\ timer' = Tick(c.tick)
    /\ sinceSelect' = 0
    /\ UNCHANGED <<ipc, cfgVars, notified, delivered, hupDelivered, hupQueued,
                   termDelivered, ctxDone, probeVars, exitVars, shutdown, loads>>

\* variant of run_Select: the interval is the one read before the last load
\* was installed (a tick value cached outside the loop)
run_Select_StaleTick ==
    /\ pc = "select"
    /\ \/ /\ signalChan # <<>>
          /\ s' = Head(signalChan)
          /\ signalChan' = Tail(signalChan)
          /\ pc' = "switch"
          /\ UNCHANGED shutdown
       \/ /\ ctxDone
          /\ pc' = "return_nil"
          /\ shutdown' = Record("return nil")
          /\ UNCHANGED <<s, signalChan>>
       \/ /\ signalChan = <<>>
          /\ ~ctxDone
          /\ pc' = "wait"
          /\ UNCHANGED <<s, signalChan, shutdown>>
    /\ timer' = Tick(IF loads = 0 THEN c.tick ELSE prevSnap.tick)
    /\ sinceSelect' = 0
    /\ UNCHANGED <<ipc, cfgVars, notified, delivered, hupDelivered, hupQueued,
                   termDelivered, ctxDone, probeVars, exitVars, loads>>

\* variant of run_Select: one ticker is made on first use and kept over the
\* iterations until it has fired
run_Select_KeepTicker ==
    /\ pc = "select"
    /\ \/ /\ signalChan # <<>>
          /\ s' = Head(signalChan)
          /\ signalChan' = Tail(signalChan)
          /\ pc' = "switch"
          /\ UNCHANGED shutdown
       \/ /\ ctxDone
          /\ pc' = "return_nil"
          /\ shutdown' = Record("return nil")
          /\ UNCHANGED <<s, signalChan>>
       \/ /\ signalChan = <<>>
          /\ ~ctxDone
          /\ pc' = "wait"
          /\ UNCHANGED <<s, signalChan, shutdown>>
    /\ timer' = IF timer.armed THEN timer ELSE Tick(c.tick)
    /\ sinceSelect' = 0
    /\ UNCHANGED <<ipc, cfgVars, notified, delivered, hupDelivered, hupQueued,
                   termDelivered, ctxDone, probeVars, exitVars, loads>>

\* Entry of the select: time.Tick(c.tick) makes a new ticker (the one of the
\* previous iteration is left behind), then a case that is ready is taken
\* (any one of them), otherwise the select blocks.
run_Select ==
    /\ pc = "select"
    /\ \/ /\ signalChan # <<>>
          /\ s' = Head(signalChan)
          /\ signalChan' = Tail(signalChan)
          /\ pc' = "switch"
          /\ UNCHANGED shutdown
       \/ /\ ctxDone
          /\ pc' = "return_nil"
          /\ shutdown' = Record("return nil")
          /\ UNCHANGED <<s, signalChan>>
       \/ /\ signalChan = <<>>
          /\ ~ctxDone
          /\ pc' = "wait"
          /\ UNCHANGED <<s, signalChan, shutdown>>
    /\ timer' = Tick(c.tick)
    /\ sinceSelect' = 0
    /\ UNCHANGED <<ipc, cfgVars, notified, delivered, hupDelivered, hupQueued,
                   termDelivered, ctxDone, probeVars, exitVars, loads>>

\* case syscall.SIGINT, syscall.SIGTERM: log, then cancel()
run_Terminate ==
    /\ pc = "switch"
    /\ s \in {SIGINT, SIGTERM}
    /\ s' = "none"
    /\ shutdown' = Append(shutdown, "Got SIGINT/SIGTERM, exiting.")
    /\ pc' = "cancel_dying"
    /\ UNCHANGED <<ipc, cfgVars, sigVars, ctxDone, timer, sinceSelect, probeVars, exitVars, loads>>

\* log.Println("I am dying, please wait...")
cancel_Dying ==
    /\ pc = "cancel_dying"
    /\ shutdown' = Append(shutdown, "I am dying, please wait...")
    /\ pc' = "cancel_sleep"
    /\ UNCHANGED <<ipc, cfgVars, sigVars, ctxDone, timer, sinceSelect, s, probeVars, exitVars, loads>>

\* time.Sleep(2 * time.Second)
cancel_Sleep ==
    /\ pc = "cancel_sleep"
    /\ shutdown' = Append(shutdown, "time.Sleep(2s)")
    /\ pc' = "cancel_dead"
    /\ UNCHANGED <<ipc, cfgVars, sigVars, ctxDone, timer, sinceSelect, s, probeVars, exitVars, loads>>

\* log.Println("I am dead.")
cancel_Dead ==
    /\ pc = "cancel_dead"
    /\ shutdown' = Append(shutdown, "I am dead.")
    /\ pc' = "os_exit"
    /\ UNCHANGED <<ipc, cfgVars, sigVars, ctxDone, timer, sinceSelect, s, probeVars, exitVars, loads>>

\* variant of run_Exit: os.Exit(1) is missing after cancel(), the switch
\* falls through to the next iteration
run_Exit_Fallthrough ==
    /\ pc = "os_exit"
    /\ pc' = "select"
    /\ UNCHANGED <<ipc, cfgVars, sigVars, ctxDone, timer, sinceSelect, s, probeVars, exitVars,
                   shutdown, loads>>

\* os.Exit(1) after cancel()
run_Exit ==
    /\ pc = "os_exit"
    /\ Exit(1)
    /\ shutdown' = Append(shutdown, "os.Exit(1)")
    /\ UNCHANGED <<ipc, cfgVars, sigVars, ctxDone, timer, sinceSelect, s, probeVars, loads>>

\* variant of run_Reload: init is started in its own goroutine (go c.init)
\* and the loop goes on at once
run_Reload_Async ==
    /\ pc = "switch"
    /\ s = SIGHUP
    /\ ipc = "idle"
    /\ s' = "none"
    /\ loads' = loads + 1
    /\ pc' = "select"
    /\ ipc' = "parse"
    /\ shutdown' = Record("reload")
    /\ UNCHANGED <<cfgVars, sigVars, ctxDone, timer, sinceSelect, probeVars, exitVars>>

\* variant of run_Reload: the handler empties the channel before reloading,
\* so a SIGHUP that is already queued is coalesced into this reload
run_Reload_Drain ==
    /\ pc = "switch"
    /\ s = SIGHUP
    /\ s' = "none"
    /\ loads' = loads + 1
    /\ pc' = "reload_init"
    /\ ipc' = "parse"
    /\ signalChan' = <<>>
    /\ shutdown' = Record("reload")
    /\ UNCHANGED <<cfgVars, notified, delivered, hupDelivered, hupQueued,
                   termDelivered, ctxDone, timer, sinceSelect, probeVars, exitVars>>

\* case syscall.SIGHUP: log, then c.init(os.Args)
run_Reload ==
    /\ pc = "switch"
    /\ s = SIGHUP
    /\ s' = "none"
    /\ loads' = loads + 1
    /\ pc' = "reload_init"
    /\ ipc' = "parse"
    /\ shutdown' = Record("reload")
    /\ UNCHANGED <<cfgVars, sigVars, ctxDone, timer, sinceSelect, probeVars, exitVars>>

(* ---------------- run: the probe cycle ---------------- *)
\* variant of run_Get: the request is issued from a goroutine and the loop
\* does not wait for it
run_Get_Async ==
    /\ pc = "tick"
    /\ used' = ("url" :> c.url)
    /\ inflight' = inflight + 1
    /\ pc' = "select"
    /\ shutdown' = Record("GET")
    /\ UNCHANGED <<ipc, cfgVars, sigVars, ctxDone, timer, sinceSelect, s, resp, lines,
                   getFailed, exitVars, loads>>

\* resp, err := http.Get(c.url): the request is sent
run_Get ==
    /\ pc = "tick"
    /\ used' = ("url" :> c.url)
    /\ inflight' = inflight + 1
    /\ pc' = "get"
    /\ shutdown' = Record("GET")
    /\ UNCHANGED <<ipc, cfgVars, sigVars, ctxDone, timer, sinceSelect, s, resp, lines,
                   getFailed, exitVars, loads>>

\* variant of http_Fail: the error is logged and the loop continues
http_Fail_Continue ==
    /\ pc = "get"
    /\ inflight' = inflight - 1
    /\ getFailed' = TRUE
    /\ pc' = "select"
    /\ shutdown' = Record("GET failed")
    /\ UNCHANGED <<ipc, cfgVars, sigVars, ctxDone, timer, sinceSelect, s, resp, lines, used,
                   exitVars, loads>>

\* the GET fails at transport level: return err
http_Fail ==
    /\ pc = "get"
    /\ inflight' = inflight - 1
    /\ getFailed' = TRUE
    /\ pc' = "return_err"
    /\ shutdown' = Record("return err")
    /\ UNCHANGED <<ipc, cfgVars, sigVars, ctxDone, timer, sinceSelect, s, resp, lines, used,
                   exitVars, loads>>

\* the GET gets a response (an empty URL has no scheme and always fails);
\* log.Print(os.Getpid(), ": ")
http_Ok ==
    /\ pc = "get"
    /\ used["url"] # ""
    /\ \E r \in Responses : resp' = r
    /\ inflight' = inflight - 1
    /\ lines' = <<[msg |-> "pid", got |-> ""]>>
    /\ pc' = "check_status"
    /\ UNCHANGED <<ipc, cfgVars, sigVars, ctxDone, timer, sinceSelect, s, used, getFailed,
                   exitVars, shutdown, loads>>

\* variant of Check: the comparisons form an else-if chain, the first
\* mismatch ends the cycle
Check_ShortCircuit(field, got, msg, next) ==
    /\ used' = (field :> c[field]) @@ used
    /\ lines' = IF got # c[field]
                THEN Append(lines, [msg |-> msg, got |-> ToString(got)])
                ELSE lines
    /\ pc' = IF got # c[field] THEN "cycle_end" ELSE next
    /\ shutdown' = IF got # c[field] THEN Record("mismatch") ELSE shutdown
    /\ UNCHANGED <<ipc, cfgVars, sigVars, ctxDone, timer, sinceSelect, s, resp, inflight,
                   getFailed, exitVars, loads>>

\* variant of Check: after a mismatch the observed value becomes the
\* expected one
Check_Learn(field, got, msg, next) ==
    /\ used' = (field :> c[field]) @@ used
    /\ lines' = IF got # c[field]
                THEN Append(lines, [msg |-> msg, got |-> ToString(got)])
                ELSE lines
    /\ c' = [c EXCEPT ![field] = got]
    /\ pc' = next
    /\ shutdown' = IF got # c[field] THEN Record("mismatch") ELSE shutdown
    /\ UNCHANGED <<ipc, flags, args, liveSnap, prevSnap, sigVars, ctxDone, timer,
                   sinceSelect, s, resp, inflight, getFailed, exitVars, loads>>

\* variant of Check: a mismatch is logged with log.Fatalf
Check_Fatal(field, got, msg, next) ==
    /\ used' = (field :> c[field]) @@ used
    /\ lines' = IF got # c[field]
                THEN Append(lines, [msg |-> msg, got |-> ToString(got)])
                ELSE lines
    /\ IF got # c[field]
       THEN Exit(1)
       ELSE pc' = next /\ UNCHANGED exitVars
    /\ shutdown' = IF got # c[field] THEN Record("mismatch") ELSE shutdown
    /\ UNCHANGED <<ipc, cfgVars, sigVars, ctxDone, timer, sinceSelect, s, resp, inflight,
                   getFailed, loads>>

\* one comparison of the probe cycle: log a line when got differs from the
\* expected value c[field], then go on with the next statement
Check(field, got, msg, next) ==
    /\ used' = (field :> c[field]) @@ used
    /\ lines' = IF got # c[field]
                THEN Append(lines, [msg |-> msg, got |-> ToString(got)])
                ELSE lines
    /\ pc' = next
    /\ shutdown' = IF got # c[field] THEN Record("mismatch") ELSE shutdown
    /\ UNCHANGED <<ipc, cfgVars, sigVars, ctxDone, timer, sinceSelect, s, resp, inflight,
                   getFailed, exitVars, loads>>

\* if resp.StatusCode != c.statusCode
run_CheckStatus ==
    /\ pc = "check_status"
    /\ Check("statusCode", resp.StatusCode, "Status code mismatch", "check_server")

\* if s := resp.Header.Get("server"); s != c.server
run_CheckServer ==
    /\ pc = "check_server"
    /\ Check("server", HeaderGet(resp.Header, "server"), "Server header mismatch",
             "check_contentType")

\* if ct := resp.Header.Get("content-type"); ct != c.contentType
run_CheckContentType ==
    /\ pc = "check_contentType"
    /\ Check("contentType", HeaderGet(resp.Header, "content-type"),
             "Content-Type header mismatch", "check_userAgent")

\* if ua := resp.Header.Get("user-agent"); ua != c.userAgent
run_CheckUserAgent ==
    /\ pc = "check_userAgent"
    /\ Check("userAgent", HeaderGet(resp.Header, "user-agent"),
             "User-Agent header mismatch", "cycle_end")

\* end of the tick case: back to the top of the for loop
run_EndCycle ==
    /\ pc = "cycle_end"
    /\ pc' = "select"
    /\ resp' = NoResp
    /\ lines' = <<>>
    /\ used' = NoOptions
    /\ UNCHANGED <<ipc, cfgVars, sigVars, ctxDone, timer, sinceSelect, s, inflight, getFailed,
                   exitVars, shutdown, loads>>

(* ---------------- main ---------------- *)
\* variant of main_Return: main treats every return of run as a failure
main_Return_Exit1 ==
    /\ pc = "return_nil"
    /\ Exit(1)
    /\ ctxDone' = TRUE
    /\ UNCHANGED <<ipc, cfgVars, sigVars, timer, sinceSelect, s, probeVars, shutdown, loads>>

\* run returned nil: main returns, the deferred cancel() runs, exit status 0
main_Return ==
    /\ pc = "return_nil"
    /\ pc' = "exited"
    /\ exitCode' = 0
    /\ forced' = FALSE
    /\ ctxDone' = TRUE
    /\ UNCHANGED <<ipc, cfgVars, sigVars, timer, sinceSelect, s, probeVars, shutdown, loads>>

\* run returned an error: print it, os.Exit(1)
main_Err ==
    /\ pc = "return_err"
    /\ Exit(1)
    /\ UNCHANGED <<ipc, cfgVars, sigVars, ctxDone, timer, sinceSelect, s, probeVars, shutdown, loads>>

(* ---------------- specifications ---------------- *)
\* the steps of the program itself
Program ==
    \/ run_Init \/ init_Parse \/ init_Assign \/ init_Return \/ run_Notify
    \/ run_Select \/ run_Terminate \/ cancel_Dying \/ cancel_Sleep
    \/ cancel_Dead \/ run_Exit \/ run_Reload \/ run_Get \/ http_Fail
    \/ http_Ok \/ run_CheckStatus \/ run_CheckServer \/ run_CheckContentType
    \/ run_CheckUserAgent \/ run_EndCycle \/ main_Return \/ main_Err

Next ==
    \/ run_Init \/ init_Parse \/ init_Assign \/ init_Return \/ run_Notify
    \/ run_Select \/ run_Terminate \/ cancel_Dying \/ cancel_Sleep
    \/ cancel_Dead \/ run_Exit \/ run_Reload \/ run_Get \/ http_Fail
    \/ http_Ok \/ run_CheckStatus \/ run_CheckServer \/ run_CheckContentType
    \/ run_CheckUserAgent \/ run_EndCycle \/ main_Return \/ main_Err
    \/ \E sig \in Signals : Deliver(sig)
    \/ CancelCtx \/ Advance \/ TickFire

Spec == Init /\ [][Next]_vars

\* The goroutine keeps running, every GET completes and time passes; the
\* environment is never obliged to send a signal or to cancel.
FairSpec == Spec /\ WF_vars(Program) /\ WF_vars(Advance) /\ WF_vars(TickFire)

\* The program as main runs it: main cancels its context only in the
\* deferred call, after run has returned, so no cancellation reaches the loop.
NextMain ==
    \/ run_Init \/ init_Parse \/ init_Assign \/ init_Return \/ run_Notify
    \/ run_Select \/ run_Terminate \/ cancel_Dying \/ cancel_Sleep
    \/ cancel_Dead \/ run_Exit \/ run_Reload \/ run_Get \/ http_Fail
    \/ http_Ok \/ run_CheckStatus \/ run_CheckServer \/ run_CheckContentType
    \/ run_CheckUserAgent \/ run_EndCycle \/ main_Err
    \/ \E sig \in Signals : Deliver(sig)
    \/ Advance \/ TickFire

MainFairSpec ==
    Init /\ [][NextMain]_vars /\ WF_vars(Program) /\ WF_vars(Advance)
         /\ WF_vars(TickFire)

(* ---------------- properties ---------------- *)
CheckPCs == {"check_status", "check_server", "check_contentType", "check_userAgent"}

\* C1: handling a SIGHUP never ends the process, whether the re-invoked load
\* succeeds or fails: from the reload the controller stays in RUNNING.
C1_ReloadNeverTerminates ==
    [][pc = "reload_init" => State' = "RUNNING"]_vars

\* C2: every terminate signal delivered to the live process eventually leads
\* to process exit with code 1, whatever the loop is doing at delivery.
C2_TerminateAlwaysExits1 ==
    (termDelivered > 0) ~> (exitCode = 1)

\* the events of a signal-driven shutdown, in order
ShutdownOrder ==
    <<"Got SIGINT/SIGTERM, exiting.", "I am dying, please wait...",
      "time.Sleep(2s)", "I am dead.", "os.Exit(1)">>

\* C3: once a terminate signal is handled the loop does exactly: shutdown
\* start line(s), the 2 second sleep, the completion line, exit status 1;
\* no probe, reload or return happens in between.
C3_ShutdownSequence ==
    /\ Len(shutdown) <= Len(ShutdownOrder)
    /\ shutdown = SubSeq(ShutdownOrder, 1, Len(shutdown))
    /\ (State = "SHUTTING_DOWN" => shutdown # <<>>)
    /\ (shutdown # <<>> /\ pc = "exited" =>
            shutdown = ShutdownOrder /\ exitCode = 1 /\ forced)

C3_Witness ==
    pc = "exited" /\ shutdown = ShutdownOrder /\ exitCode = 1

\* C4: a transport failure of the GET is fatal: run returns the error, the
\* process exits with status 1, and nothing else happens after the failure
\* (no tick, probe, reload or mismatch line; the GET is not retried).
C4_TransportFailureFatal ==
    /\ [](getFailed => /\ pc \in {"return_err", "exited"}
                       /\ lines = <<>>
                       /\ inflight = 0
                       /\ (pc = "exited" => exitCode = 1))
    /\ [][getFailed => UNCHANGED <<c, loads, probeVars, ipc, shutdown>>]_vars

C4_Witness ==
    getFailed /\ pc = "exited" /\ exitCode = 1 /\ used["url"] # ""

\* C5: external cancellation makes run return nil without a forced exit: the
\* exit status is 0, while the signal path ends in os.Exit(1).
C5_CancellationExitsClean ==
    /\ [](pc = "return_nil" => exitCode < 0 /\ ~forced /\ shutdown = <<>>)
    /\ [][pc = "return_nil" /\ pc' # pc =>
              pc' = "exited" /\ exitCode' = 0 /\ ~forced']_vars
    /\ [](pc = "exited" /\ shutdown # <<>> => exitCode = 1 /\ forced)

C5_Witness ==
    pc = "exited" /\ exitCode = 0 /\ ~forced /\ ctxDone /\ notified

\* C6: every probe cycle reads all its fields (url and the four expected
\* values) from one snapshot, the one before or the one after a reload.
C6_ProbeUsesOneSnapshot ==
    \E sn \in {prevSnap, liveSnap} : \A f \in DOMAIN used : used[f] = sn[f]

C6_Witness ==
    /\ pc = "cycle_end"
    /\ loads > 0
    /\ \A f \in DOMAIN used : liveSnap[f] # prevSnap[f]
    /\ Cardinality(DOMAIN used) = 5

\* C7: no handler overlaps another: at most one GET is outstanding, init runs
\* only while the loop is blocked in its call, and a GET is outstanding only
\* while the loop is blocked in http.Get.
C7_NoOverlap ==
    /\ inflight <= 1
    /\ (inflight = 1 => pc = "get" /\ ipc = "idle")
    /\ (ipc # "idle" => pc \in {"startup_init", "reload_init", "exited"})
    /\ (pc \in CheckPCs \cup {"tick", "get", "cycle_end"} => shutdown = <<>>)

C7_Witness ==
    inflight = 1 /\ signalChan = <<SIGHUP>> /\ delivered > 1

\* C8 as stated: once the loop has drained its pending signals, the number
\* of load re-invocations equals the number of SIGHUPs delivered.
C8_EveryHupReloads ==
    pc = "wait" => loads = hupDelivered

\* C8 amended: once the loop has drained its pending signals, the number of
\* load re-invocations equals the number of SIGHUPs that were queued (put in
\* the channel or handed to the blocked select); a SIGHUP delivered while the
\* single slot is full is dropped, so re-invocations never exceed deliveries.
C8_QueuedHupReloads ==
    /\ (pc = "wait" => loads = hupQueued)
    /\ loads <= hupQueued
    /\ hupQueued <= hupDelivered

C8_Witness ==
    pc = "wait" /\ loads = 1 /\ hupDelivered = 2

\* the mismatch messages a response must produce against a configuration
Expected(r, cf) ==
    (IF r.StatusCode # cf.statusCode THEN {"Status code mismatch"} ELSE {}) \cup
    (IF HeaderGet(r.Header, "server") # cf.server
        THEN {"Server header mismatch"} ELSE {}) \cup
    (IF HeaderGet(r.Header, "content-type") # cf.contentType
        THEN {"Content-Type header mismatch"} ELSE {}) \cup
    (IF HeaderGet(r.Header, "user-agent") # cf.userAgent
        THEN {"User-Agent header mismatch"} ELSE {})

\* C9: the mismatch lines of a probe cycle are exactly the tracked fields
\* whose observed value differs from the expected one, one line each.
C9_MismatchLinesExact ==
    pc = "cycle_end" =>
        /\ {lines[i].msg : i \in 2..Len(lines)} = Expected(resp, liveSnap)
        /\ Len(lines) = 1 + Cardinality(Expected(resp, liveSnap))
        /\ lines[1].msg = "pid"

C9_Witness ==
    /\ pc = "cycle_end"
    /\ resp.StatusCode = 200
    /\ HeaderGet(resp.Header, "server") = "nginx"
    /\ HeaderGet(resp.Header, "content-type") = "text/html"
    /\ HeaderGet(resp.Header, "user-agent") = ""
    /\ c.statusCode = 404 /\ c.server = "apache"
    /\ c.contentType = "text/html" /\ c.userAgent = "x"
    /\ Len(lines) = 4

\* C10: a mismatch is never fatal: from any comparison of a successful probe
\* the loop goes on to the next statement and back to the select, the
\* process keeps running.
C10_MismatchNotFatal ==
    [][(pc \in CheckPCs \cup {"cycle_end"}) =>
          (pc' \in CheckPCs \cup {"cycle_end", "select"}
             /\ exitCode' < 0 /\ State' = "RUNNING")]_vars

C10_Witness ==
    pc = "cycle_end" /\ Len(lines) = 5

\* C11: a load that fails changes no field of the configuration: when init
\* ends in a parse error, c is still the snapshot installed before the call.
C11_FailedLoadKeepsSnapshot ==
    /\ [](exitCode = exitOnErrorCode => c = liveSnap /\ flags = config)
    /\ [][ipc = "parse" /\ exitCode' = exitOnErrorCode =>
              UNCHANGED <<c, liveSnap, prevSnap>>]_vars

C11_Witness ==
    exitCode = exitOnErrorCode /\ loads > 0 /\ liveSnap.url = "http://b"

\* C12: in every RUNNING state the interval of the live snapshot is strictly
\* positive (load never installs a zero or negative tick).
C12_IntervalPositive ==
    State = "RUNNING" => liveSnap.tick > 0

\* the snapshots a successful load can return
ValidSnapshots == {Parse(o).v : o \in {i \in Inputs : Parse(i).ok}}

\* C13: the controller is RUNNING only after a snapshot was successfully
\* loaded; when the initial load fails the process ends before the signal
\* channel exists, no ticker is made, no probe is issued.
C13_StartupLoadRequired ==
    /\ (State = "RUNNING" => notified /\ liveSnap \in ValidSnapshots)
    /\ (~notified => /\ pc \in {"start", "startup_init", "log_start", "exited"}
                     /\ ~timer.armed
                     /\ inflight = 0
                     /\ used = NoOptions
                     /\ loads = 0)
    /\ (exitCode = exitOnErrorCode /\ loads = 0 => ~notified /\ liveSnap = config)

C13_Witness ==
    pc = "exited" /\ exitCode = exitOnErrorCode /\ loads = 0 /\ ~notified

\* the text of a supplied option, or dflt when the option is omitted
Supplied(name, dflt) == IF name \in DOMAIN args THEN args[name] ELSE dflt

\* C14: when init returns, every field of the snapshot equals the supplied
\* value, or the documented default when the option is omitted (status 200,
\* tick 60s, the four strings empty).
C14_LoadReturnsSupplied ==
    ipc = "return" =>
        /\ ToString(c.statusCode) = Supplied("status", "200")
        /\ ToString(c.tick) \o "s" = Supplied("tick", "60s")
        /\ c.server = Supplied("server", "")
        /\ c.contentType = Supplied("content_type", "")
        /\ c.userAgent = Supplied("user_agent", "")
        /\ c.url = Supplied("url", "")

C14_Witness ==
    /\ ipc = "return"
    /\ DOMAIN args = {"tick", "url", "server"}
    /\ c.tick < 0 /\ c.statusCode = 200 /\ c.server = "nginx"

\* C15 as stated: once the context is cancelled, the select of the next
\* iteration returns from run; no tick, probe or reload is handled first.
C15_ReturnsAtNextBoundary ==
    [][(ctxDone /\ pc = "select") => pc' \in {"select", "return_nil"}]_vars

\* C15 amended: once the context is cancelled no tick is taken any more (a
\* probe already started finishes); at an iteration boundary the select
\* returns from run, or takes a signal that is pending in the channel; and
\* run eventually returns unless the process exits first.
C15_CancelledLoopTakesNoTick ==
    /\ [](ctxDone => pc # "wait")
    /\ [][(ctxDone /\ pc' = "tick") => pc = "tick"]_vars
    /\ [][(ctxDone /\ pc = "select") =>
              \/ pc' \in {"select", "return_nil"}
              \/ pc' = "switch" /\ signalChan # <<>>]_vars
    /\ (ctxDone ~> pc \in {"return_nil", "exited"})

C15_Witness ==
    ctxDone /\ pc = "cycle_end" /\ signalChan = <<SIGHUP>>

\* C16: the lifecycle takes only these steps: RUNNING -> RUNNING, RUNNING ->
\* SHUTTING_DOWN on a terminate signal, SHUTTING_DOWN -> TERMINATED with exit
\* status 1, RUNNING -> TERMINATED on cancellation or transport failure;
\* nothing is handled, probed or logged in TERMINATED.
C16_LifecycleTransitions ==
    [][/\ (State = "RUNNING" =>
              State' \in {"RUNNING", "SHUTTING_DOWN", "TERMINATED"})
       /\ (State = "RUNNING" /\ State' = "SHUTTING_DOWN" =>
              pc = "switch" /\ s \in {SIGINT, SIGTERM})
       /\ (State = "RUNNING" /\ State' = "TERMINATED" =>
              pc' \in {"return_nil", "return_err"})
       /\ (State = "SHUTTING_DOWN" =>
              \/ State' = "SHUTTING_DOWN"
              \/ State' = "TERMINATED" /\ exitCode' = 1)
       /\ (State = "TERMINATED" =>
              State' = "TERMINATED" /\ UNCHANGED <<c, loads, probeVars, shutdown>>)
      ]_vars

\* C17: every probe cycle uses the current snapshot: the ticker the loop
\* waits on has the interval of the snapshot installed last, and the url and
\* the expected values a probe reads are those of that snapshot.
C17_ProbeUsesCurrentSnapshot ==
    /\ (pc = "wait" => /\ timer.armed = (liveSnap.tick > 0)
                       /\ (timer.armed => timer.d = liveSnap.tick))
    /\ \A f \in DOMAIN used : used[f] = liveSnap[f]
    /\ (pc \in CheckPCs \cup {"tick", "get", "cycle_end"} => c = liveSnap)

C17_Witness ==
    /\ pc = "wait"
    /\ loads > 0
    /\ timer.armed
    /\ timer.d = 2
    /\ prevSnap.tick = 1

\* C18: the snapshot changes only while a load is running: handling a tick,
\* a cancellation or a terminate signal leaves every field unchanged.
C18_SnapshotChangesOnlyOnReload ==
    [][(pc \notin {"startup_init", "reload_init"}) =>
          UNCHANGED <<c, liveSnap, prevSnap>>]_vars

C18_Witness ==
    pc = "cycle_end" /\ Len(lines) > 1 /\ loads = 0 /\ c = liveSnap /\ delivered > 0

\* C19: the ticker is started from zero at every entry of the select, also
\* after a signal: a tick is taken only when a full interval has passed
\* since the loop last entered the select, so time that had elapsed before a
\* SIGHUP was handled does not count towards the next probe.
C19_TimerRestartsEachIteration ==
    /\ [](pc = "wait" /\ timer.armed => timer.elapsed = sinceSelect)
    /\ [][(pc = "select" /\ pc' # "select") =>
              (timer'.elapsed = 0 /\ sinceSelect' = 0)]_vars
    /\ [][(pc' = "tick" /\ pc # "tick") =>
              (pc = "wait" /\ sinceSelect = liveSnap.tick)]_vars

C19_Witness ==
    /\ pc = "select"
    /\ loads > 0
    /\ timer.armed
    /\ timer.elapsed > 0
    /\ timer.elapsed < timer.d

\* C20: while the live snapshot has a zero or negative interval the ticker
\* never fires: the blocked select has no ticker and no probe cycle runs.
C20_NonPositiveIntervalNeverTicks ==
    /\ (pc = "wait" /\ liveSnap.tick <= 0 => ~timer.armed)
    /\ (pc \in CheckPCs \cup {"tick", "get", "cycle_end"} => liveSnap.tick > 0)

C20_Witness ==
    pc = "wait" /\ liveSnap.tick < 0 /\ ~timer.armed /\ loads > 0
====
